---- MODULE Spec2Model ----
(***************************************************************************)
(* The public survey form of src/src/App.tsx (the component App, lines     *)
(* 516-890, and the helpers it calls): the React state of the component,   *)
(* the structure loads and vote requests in flight, and the continuation   *)
(* of the one handleVote call that may be suspended at an await.           *)
(*                                                                         *)
(* One action is one run of a handler between two suspension points: React *)
(* batches the set-state calls of such a run and renders once, and effects *)
(* of that render run before the next event is handled.                    *)
(***************************************************************************)
EXTENDS Integers, Sequences, FiniteSets, Bags, TLC

\* ------------------------------------------------------------------ bounds

\* Largest number of questions a survey structure carries.
MaxQuestions == 2
\* Largest number of structure loads in flight at once.
MaxLoads == 2

\* ------------------------------------------------------- values and inputs

\* null in a number-valued state (surveyId, errorStatus).
NullId == -1
\* null in a string-valued state (errorMessage, errorDetails).
NullText == "<null>"

\* What the path regex /\/surveys\/(\d+)/ yields: null (no match) or an
\* identifier. (/surveys/0 yields 0, which every test of surveyId in the code
\* treats as it treats null: see Truthy.)
SurveyIds == {1, 2}
PathIds == {NullId} \cup SurveyIds

QuestionIds == 1..MaxQuestions
\* Option ids are database identifiers (positive).
OptionIds == {1, 2}
\* The active options of question q: the first question has two options, the
\* others one.
OptionsOf(q) == IF q = 1 THEN OptionIds ELSE {1}

\* JavaScript truthiness of a number | null | undefined.
Truthy(n) == n # NullId /\ n # 0

\* The JSON encodings of `ativo` a response may carry: true, false, 1.
AtivoValues == {"true", "false", "1"}

\* A question list of n questions: distinct question ids in survey order (by
\* `ordem`), which is not the order of the ids: <<>>, <<1>>, <<2, 1>>,
\* <<3, 1, 2>>, ...
QuestionList(n) == [i \in 1..n |-> IF i = 1 THEN n ELSE i - 1]

NullStructure == [id |-> NullId, ativo |-> "null", questions |-> <<>>]

\* The structures a successful read of /api/surveys/{id}/structure may return.
\* Survey 1 has MaxQuestions questions and its `ativo` may be any of the
\* encodings; the other survey is active and has one question or none.
StructuresOf(id) ==
  IF id = 1
    THEN [id : {id}, ativo : AtivoValues,
          questions : {QuestionList(MaxQuestions)}]
    ELSE [id : {id}, ativo : {"true"},
          questions : {QuestionList(0), QuestionList(1)}]

\* selectedOptions = {}
EmptySelection == [q \in {} |-> 0]

\* ---------------------------------------------------------------- messages

MsgNoUrl == "URL da pesquisa nao informada. Use /surveys/{id}."
MsgNotActive == "Esta pesquisa nao esta ativa."
MsgLoadFallback == "Nao foi possivel carregar a pesquisa selecionada."
MsgSelect == "Selecione uma pergunta e uma opcao para votar."
MsgAnswerAll == "Responda todas as perguntas para enviar seu voto."
MsgVoteFallback == "Nao foi possivel registrar seu voto."
MsgTooMany == "Muitas requisicoes. Tente novamente em 1 minuto."
MsgAlreadyVoted == "Voce ja votou recentemente nesta pesquisa neste dispositivo."
MsgExpired == "Esta pesquisa expirou."
MsgNotFound == "Pesquisa nao encontrada ou expirada."
MsgGeneric == "Nao foi possivel completar a acao."

\* Messages a server body may carry (NullText: the body has no string message).
SrvAlready == "Ja recebemos um voto deste dispositivo."
SrvExpired == "Pesquisa EXPIRADA."
SrvOther == "Erro interno."
\* The message of an error thrown by fetch itself or by reading a field of a
\* body that is not an object (a TypeError): it has no status and no details.
MsgThrown == "Failed to fetch"

\* (error.message || '').toLowerCase().includes(needle), over the messages above.
IncludesJaRecebemos(m) == m \in {SrvAlready}
IncludesExpirada(m) == m \in {SrvExpired, MsgNotFound}

\* `a || b` on strings: null, undefined and '' are falsy.
OrText(a, b) == IF a = NullText \/ a = "" THEN b ELSE a

\* ------------------------------------------------------------- API client

\* A response body's details: absent, a string, or a list of strings.
NoDetails == [tag |-> "absent", str |-> "", list |-> <<>>]
StrDetails(s) == [tag |-> "string", str |-> s, list |-> <<>>]
ListDetails(l) == [tag |-> "list", str |-> "", list |-> l]

RECURSIVE Join(_, _)
\* Array.prototype.join
Join(l, sep) ==
  IF Len(l) = 0 THEN ""
  ELSE IF Len(l) = 1 THEN l[1]
  ELSE l[1] \o sep \o Join(Tail(l), sep)

\* The variant that tests the body's message before the status:
\* rawMessage || (status === 404 ? not-found : generic).
ApiError_MessageFirst(status, body) ==
  [status |-> status,
   message |-> OrText(body.message,
                      IF status = 404 THEN MsgNotFound ELSE MsgGeneric),
   details |-> IF body.details.tag = "string" THEN body.details.str
               ELSE IF body.details.tag = "list" THEN Join(body.details.list, " | ")
               ELSE NullText]

\* The error apiFetch throws for a non-ok response.
ApiError(status, body) ==
  [status |-> status,
   message |-> IF status = 404 THEN MsgNotFound ELSE OrText(body.message, MsgGeneric),
   details |-> IF body.details.tag = "string" THEN body.details.str
               ELSE IF body.details.tag = "list" THEN Join(body.details.list, " | ")
               ELSE NullText]

\* The error of a rejected fetch (network failure): not an ApiError.
ThrownError == [status |-> NullId, message |-> MsgThrown, details |-> NullText]

\* What a failed request may throw into the caller's catch: the error of a
\* 404 without a body, of a 500 with a message and a details list, and the
\* error of a rejected fetch.
Failures ==
  { ApiError(404, [message |-> NullText, details |-> NoDetails]),
    ApiError(500, [message |-> SrvOther, details |-> ListDetails(<<"a", "b">>)]),
    ThrownError }

\* The variant without the status test: normalized.includes(...) alone.
mapApiErrorMessage_No409(error) ==
  IF error.status = 429 THEN [error EXCEPT !.message = MsgTooMany]
  ELSE IF IncludesJaRecebemos(error.message)
    THEN [error EXCEPT !.message = MsgAlreadyVoted]
  ELSE IF IncludesExpirada(error.message)
    THEN [error EXCEPT !.message = MsgExpired]
  ELSE error

\* mapApiErrorMessage
mapApiErrorMessage(error) ==
  IF error.status = 429 THEN [error EXCEPT !.message = MsgTooMany]
  ELSE IF IncludesJaRecebemos(error.message) \/ error.status = 409
    THEN [error EXCEPT !.message = MsgAlreadyVoted]
  ELSE IF IncludesExpirada(error.message)
    THEN [error EXCEPT !.message = MsgExpired]
  ELSE error

\* The non-success statuses a response may carry.
ErrorStatuses == {400, 404, 409, 429, 500}

\* body.message of a non-success response: not a string (or the body is not
\* an object), the empty string, or one of the server's messages.
ServerMessages == {NullText, "", SrvAlready, SrvExpired, SrvOther}

\* body.details of a non-success response.
ServerDetails == {NoDetails, StrDetails("d"), ListDetails(<<"a", "b">>)}

\* The server refuses nothing.
NoRefusal ==
  [kind |-> "none", status |-> NullId,
   body |-> [message |-> NullText, details |-> NoDetails]]

\* How a request may fail: a non-ok response with a status and a JSON body,
\* or fetch itself rejecting with an Error whose message may be empty.
Refusals ==
  [kind : {"http"}, status : ErrorStatuses,
   body : [message : ServerMessages, details : ServerDetails]]
    \cup [kind : {"rejected"}, status : {NullId},
          body : [message : {MsgThrown, ""}, details : {NoDetails}]]

\* What the failing request throws into the catch block of its caller.
ErrorOf(r) ==
  IF r.kind = "http" THEN ApiError(r.status, r.body)
  ELSE [status |-> NullId, message |-> r.body.message, details |-> NullText]

\* ---------------------------------------------------------- source context

\* The source context fields of a vote payload, each a string or null.
ContextFields ==
  {"source", "country", "state", "city", "deviceType", "operatingSystem",
   "browser"}

\* getStoredSourceContext() = null (nothing stored, or not JSON): every
\* storedSourceContext?.field is undefined.
NullContext == [f \in ContextFields |-> NullText]

\* What getSourceParam, getGeoParams and getDeviceContext derive from the
\* query string and the user agent of the visit: ?city=SP, a desktop Chrome
\* on Linux.
FreshContext ==
  [NullContext EXCEPT !["city"] = "SP", !["deviceType"] = "desktop",
                      !["operatingSystem"] = "Linux", !["browser"] = "Chrome"]

\* The records an earlier visit may have left under SOURCE_STORAGE_KEY.
StoredAtStart == { [NullContext EXCEPT !["country"] = "BR"] }

\* What other pages may yield: ?country= is absent, empty or AR, ?city= is
\* absent or SP (URLSearchParams.get gives null, '' or the value).
FreshContexts ==
  { [FreshContext EXCEPT !["country"] = c, !["city"] = t] :
      c \in {NullText, "", "AR"}, t \in {NullText, "SP"} }

\* What may be stored when a visit starts: nothing, or a record of an earlier
\* visit.
StoredContexts ==
  StoredAtStart
    \cup {NullContext, [NullContext EXCEPT !["country"] = "BR", !["city"] = "RJ"]}

\* The variant with the operands swapped: stored?.field || fresh.field || null
MergeContext_StoredFirst(fresh, stored) ==
  [f \in ContextFields |-> OrText(stored[f], OrText(fresh[f], NullText))]

\* fresh.field || stored?.field || null, field by field.
MergeContext(fresh, stored) ==
  [f \in ContextFields |-> OrText(fresh[f], OrText(stored[f], NullText))]

\* ------------------------------------------------------------------- dates

\* new Date() at the end of a successful load (voteStartedAtRef.current).
LoadDate == "load"
\* new Date() in handleVote, at the click.
ClickDate == "click"

\* -------------------------------------------------------------------- state

VARIABLES
  surveyId,            \* useState: number | null (NullId)
  structure,           \* useState: SurveyStructure | null (NullStructure)
  selectedOptions,     \* useState: question id -> option id
  structureLoading,    \* useState
  submitting,          \* useState
  errorMessage,        \* useState: string | null (NullText)
  errorDetails,        \* useState: string | null (NullText)
  errorStatus,         \* useState: number | null (NullId)
  voteResults,         \* useState: VoteResponse[]
  missingQuestionIds,  \* useState: number[]
  showThankYou,        \* useState
  voteStartedAtRef,    \* useRef: Date | null (NullText)
  localStorage,        \* the record stored under SOURCE_STORAGE_KEY
  page,                \* what the page's query string and user agent yield
  fetchPending,        \* the fetchStructure effect is scheduled and has not run
  loads,               \* network: the bag of survey ids of the structure reads in flight
  vote,                \* the handleVote call suspended at an await, if any
  votesInFlight,       \* network: POST /api/votes payloads in flight
  refusal,             \* network: how the server answers a request it refuses
  sent,                \* history: the payloads the attempt in progress has issued
  last                 \* history: the handler run that led to this state

vars == <<surveyId, structure, selectedOptions, structureLoading, submitting,
          errorMessage, errorDetails, errorStatus, voteResults,
          missingQuestionIds, showThankYou, voteStartedAtRef, localStorage,
          page, fetchPending, loads, vote, votesInFlight, refusal, sent, last>>

\* No handleVote call is suspended.
IdleVote ==
  [running |-> FALSE, structure |-> NullStructure,
   selectedOptions |-> EmptySelection, context |-> NullContext,
   startedAt |-> NullText, k |-> 0, responses |-> <<>>]

Range(s) == { s[i] : i \in 1..Len(s) }

\* A history record: the handler that ran (ev) and what it was given: the
\* survey id of the read that resolved (id), the `ativo` of the structure
\* received, the position of the vote request that resolved (k), the number
\* of questions of the attempt (n).
Event(ev) == [ev |-> ev, id |-> NullId, ativo |-> "", k |-> 0, n |-> 0]

\* ------------------------------------------------------------------- view

\* The variant that tests `if (errorStatus)` where the code tests for 404.
View_AnyStatus ==
  IF showThankYou THEN "ThankYou"
  ELSE IF Truthy(errorStatus) THEN "NotFound"
  ELSE "Form"

\* The screen the render returns: showThankYou is tested first, then 404.
View ==
  IF showThankYou THEN "ThankYou"
  ELSE IF errorStatus = 404 THEN "NotFound"
  ELSE "Form"

\* The form body ({structure && ...}) is rendered.
FormShown == View = "Form" /\ structure # NullStructure

\* The submit button is rendered and not disabled.
SubmitEnabled ==
  /\ FormShown
  /\ ~(submitting \/ structure = NullStructure \/ Len(structure.questions) = 0)

SuccessPanel == View = "Form" /\ Len(voteResults) > 0
ErrorPanel == View = "Form" /\ errorMessage # NullText
Skeleton == View = "Form" /\ structureLoading /\ structure = NullStructure

\* ------------------------------------------------------------ mount, reset

\* The state after the component is constructed for path id `id` and its
\* mount effects have run: fetchStructure either reports the missing id or
\* has issued the read and is suspended at its await.
Mounted(id) ==
  [surveyId |-> id,
   structure |-> NullStructure,
   selectedOptions |-> EmptySelection,
   structureLoading |-> Truthy(id),
   submitting |-> FALSE,
   errorMessage |-> IF Truthy(id) THEN NullText ELSE MsgNoUrl,
   errorDetails |-> NullText,
   errorStatus |-> NullId,
   voteResults |-> <<>>,
   missingQuestionIds |-> <<>>,
   showThankYou |-> FALSE,
   voteStartedAtRef |-> NullText,
   loads |-> IF Truthy(id) THEN SetToBag({id}) ELSE EmptyBag]

\* The page was opened at path id `id`.
Opened(id) ==
    LET m == Mounted(id) IN
    /\ surveyId = m.surveyId
    /\ structure = m.structure
    /\ selectedOptions = m.selectedOptions
    /\ structureLoading = m.structureLoading
    /\ submitting = m.submitting
    /\ errorMessage = m.errorMessage
    /\ errorDetails = m.errorDetails
    /\ errorStatus = m.errorStatus
    /\ voteResults = m.voteResults
    /\ missingQuestionIds = m.missingQuestionIds
    /\ showThankYou = m.showThankYou
    /\ voteStartedAtRef = m.voteStartedAtRef
    /\ loads = m.loads
    /\ vote = IdleVote
    /\ votesInFlight = {}
    /\ refusal = NoRefusal
    /\ fetchPending = FALSE
    /\ sent = <<>>
    /\ last = Event("Mount")

Init ==
  /\ \E id \in PathIds : Opened(id)
  /\ localStorage \in StoredAtStart
  /\ page = FreshContext

\* ------------------------------------------------------------- navigation

\* The variant of handlePopstate without setMissingQuestionIds([]).
Popstate_KeepsMissing(id) ==
  /\ ~fetchPending
  /\ (id # surveyId /\ Truthy(id)) => BagCardinality(loads) < MaxLoads
  /\ surveyId' = id
  /\ selectedOptions' = EmptySelection
  /\ voteResults' = <<>>
  /\ errorMessage' = NullText
  /\ errorDetails' = NullText
  /\ errorStatus' = NullId
  /\ voteStartedAtRef' = NullText
  /\ showThankYou' = FALSE
  /\ fetchPending' = (id # surveyId)
  /\ last' = Event("Popstate")
  /\ UNCHANGED <<structure, structureLoading, submitting, localStorage, page,
                 loads, vote, votesInFlight, refusal, sent, missingQuestionIds>>

\* A popstate event: handlePopstate runs and the component renders. The
\* fetchStructure effect depends on [surveyId]: it is scheduled only when the
\* identifier changed, and runs after this render.
Popstate(id) ==
  /\ ~fetchPending
  /\ (id # surveyId /\ Truthy(id)) => BagCardinality(loads) < MaxLoads
  /\ surveyId' = id
  /\ selectedOptions' = EmptySelection
  /\ voteResults' = <<>>
  /\ errorMessage' = NullText
  /\ errorDetails' = NullText
  /\ errorStatus' = NullId
  /\ voteStartedAtRef' = NullText
  /\ missingQuestionIds' = <<>>
  /\ showThankYou' = FALSE
  /\ fetchPending' = (id # surveyId)
  /\ last' = Event("Popstate")
  /\ UNCHANGED <<structure, structureLoading, submitting, localStorage, page,
                 loads, vote, votesInFlight, refusal, sent>>

\* The scheduled fetchStructure effect runs, before anything else is handled:
\* to its early return when the identifier is missing, otherwise up to its
\* first await, with the read issued.
FetchStructure ==
  /\ fetchPending
  /\ fetchPending' = FALSE
  /\ \/ /\ ~Truthy(surveyId)
        /\ structure' = NullStructure
        /\ errorMessage' = MsgNoUrl
        /\ errorStatus' = NullId
        /\ UNCHANGED <<structureLoading, selectedOptions, errorDetails,
                       voteResults, missingQuestionIds, showThankYou, loads>>
     \/ /\ Truthy(surveyId)
        /\ structureLoading' = TRUE
        /\ structure' = NullStructure
        /\ selectedOptions' = EmptySelection
        /\ errorMessage' = NullText
        /\ errorDetails' = NullText
        /\ errorStatus' = NullId
        /\ voteResults' = <<>>
        /\ missingQuestionIds' = <<>>
        /\ showThankYou' = FALSE
        /\ loads' = loads (+) SetToBag({surveyId})
  /\ last' = Event("FetchStructure")
  /\ UNCHANGED <<surveyId, submitting, voteStartedAtRef, localStorage, page,
                 vote, votesInFlight, refusal, sent>>

\* window.location.reload() (the thank-you screen's button): the page is
\* constructed again for the same path; requests in flight are dropped and
\* the stored record is kept.
Reload ==
  /\ View = "ThankYou"
  /\ LET m == Mounted(surveyId) IN
     /\ surveyId' = m.surveyId
     /\ structure' = m.structure
     /\ selectedOptions' = m.selectedOptions
     /\ structureLoading' = m.structureLoading
     /\ submitting' = m.submitting
     /\ errorMessage' = m.errorMessage
     /\ errorDetails' = m.errorDetails
     /\ errorStatus' = m.errorStatus
     /\ voteResults' = m.voteResults
     /\ missingQuestionIds' = m.missingQuestionIds
     /\ showThankYou' = m.showThankYou
     /\ voteStartedAtRef' = m.voteStartedAtRef
     /\ loads' = m.loads
  /\ vote' = IdleVote
  /\ votesInFlight' = {}
  /\ sent' = <<>>
  /\ fetchPending' = FALSE
  /\ last' = Event("Mount")
  /\ UNCHANGED <<localStorage, page, refusal>>

\* ------------------------------------------------------------ survey loader

\* The loose variant: data.ativo === true || data.ativo === 1
IsActive_Loose(data) == data.ativo \in {"true", "1"}

\* const isActive = data.ativo === true
IsActive(data) == data.ativo = "true"

\* A read in flight resolves with a structure: the fetchStructure call that
\* issued it resumes after its await, in the try block, and runs to its end
\* (finally included).
LoadOk(data) ==
  /\ ~fetchPending
  /\ BagIn(data.id, loads)
  /\ IF IsActive(data)
       THEN /\ voteStartedAtRef' = LoadDate
            /\ structure' = data
            /\ UNCHANGED <<errorMessage, errorDetails, errorStatus>>
       ELSE /\ structure' = NullStructure
            /\ errorMessage' = MsgNotActive
            /\ errorDetails' = NullText
            /\ errorStatus' = NullId
            /\ UNCHANGED voteStartedAtRef
  /\ last' = [Event("LoadOk") EXCEPT !.id = data.id, !.ativo = data.ativo]
  /\ structureLoading' = FALSE
  /\ loads' = loads (-) SetToBag({data.id})
  /\ UNCHANGED <<surveyId, selectedOptions, submitting, voteResults,
                 missingQuestionIds, showThankYou, localStorage, page, vote,
                 votesInFlight, refusal, sent, fetchPending>>

\* A read in flight for survey id fails (a non-ok response, a rejected fetch,
\* or a body that is not an object): fetchStructure resumes in its catch block.
LoadFail(id, err) ==
  /\ ~fetchPending
  /\ BagIn(id, loads)
  /\ errorMessage' = OrText(err.message, MsgLoadFallback)
  /\ errorDetails' = OrText(err.details, NullText)
  /\ errorStatus' = err.status
  /\ structureLoading' = FALSE
  /\ loads' = loads (-) SetToBag({id})
  /\ last' = [Event("LoadFail") EXCEPT !.id = id]
  /\ UNCHANGED <<surveyId, structure, selectedOptions, submitting, voteResults,
                 missingQuestionIds, showThankYou, voteStartedAtRef,
                 localStorage, page, vote, votesInFlight, refusal, sent,
                 fetchPending>>

\* ---------------------------------------------------------------- selection

\* The onChange of the radio input of option o of question q. The input is
\* rendered with the form and is not disabled while a vote is submitting; a
\* radio fires change only when it becomes checked.
SelectOption(q, o) ==
  /\ ~fetchPending
  /\ FormShown
  /\ q \in Range(structure.questions)
  /\ o \in OptionsOf(q)
  /\ ~(q \in DOMAIN selectedOptions /\ selectedOptions[q] = o)
  /\ selectedOptions' = [x \in DOMAIN selectedOptions \cup {q} |->
                           IF x = q THEN o ELSE selectedOptions[x]]
  /\ voteResults' = <<>>
  /\ errorMessage' = NullText
  /\ errorDetails' = NullText
  /\ missingQuestionIds' = SelectSeq(missingQuestionIds, LAMBDA id : id # q)
  /\ last' = Event("Select")
  /\ UNCHANGED <<surveyId, structure, structureLoading, submitting, errorStatus,
                 showThankYou, voteStartedAtRef, localStorage, page, loads,
                 vote, votesInFlight, refusal, sent, fetchPending>>

\* --------------------------------------------------- vote submission

\* !selectedOptions[question.id] is false
Selected(sel, q) == q \in DOMAIN sel /\ Truthy(sel[q])

\* structure.questions.filter((question) => !selectedOptions[question.id])
Unanswered(st, sel) == SelectSeq(st.questions, LAMBDA q : ~Selected(sel, q))

\* The variant that reads the selection of the latest render (a ref kept up
\* to date) instead of the selection captured by the closure.
Payload_LiveSelection(v, k) ==
  [surveyId |-> v.structure.id,
   questionId |-> v.structure.questions[k],
   optionId |-> IF v.structure.questions[k] \in DOMAIN selectedOptions
                  THEN selectedOptions[v.structure.questions[k]]
                  ELSE NullId,
   context |-> v.context,
   status |-> "COMPLETED",
   startedAt |-> v.startedAt,
   completedAt |-> ClickDate]

\* The payload of the k-th iteration of the loop over structure.questions, in
\* the call whose closure and locals are v.
Payload(v, k) ==
  [surveyId |-> v.structure.id,
   questionId |-> v.structure.questions[k],
   optionId |-> v.selectedOptions[v.structure.questions[k]],
   context |-> v.context,
   status |-> "COMPLETED",
   startedAt |-> v.startedAt,
   completedAt |-> ClickDate]

\* The parallel variant: every remaining request is issued at once.
Issued_All(v, k) ==
  [i \in 1..(Len(v.structure.questions) - k + 1) |-> Payload(v, k + i - 1)]

\* The requests the k-th iteration of the loop issues before it suspends at
\* `await apiFetch(...)`.
Issued(v, k) == <<Payload(v, k)>>

\* The variant responses.unshift(result)
Push_Front(responses, result) == <<result>> \o responses

\* responses.push(result)
Push(responses, result) == Append(responses, result)

\* The variant whose catch block shows what was collected: setVoteResults(responses)
ResultsOnFailure_Partial(current, responses) == responses

\* What the catch block leaves in voteResults: it does not set it.
ResultsOnFailure(current, responses) == current

\* The VoteResponse to payload p. The server numbers the vote it creates; the
\* model names the vote after the question it answers, so that a result can
\* be traced to its request.
ResponseTo(p) == [voteId |-> p.questionId]

\* The variant whose failure paths reset the form: setSelectedOptions({})
AnswersAfterFailure_Cleared(sel) == EmptySelection

\* What the failure paths of handleVote (the validation return, the catch
\* block) leave in selectedOptions: they do not set it.
AnswersAfterFailure(sel) == sel

\* The call of handleVote that starts now: its closure (structure,
\* selectedOptions and storedSourceContext of the render the click happened
\* in) and its locals (source, geo, device; startedAtIso).
StartedVote ==
  [running |-> TRUE,
   structure |-> structure,
   selectedOptions |-> selectedOptions,
   context |-> MergeContext(page, localStorage),
   startedAt |-> OrText(voteStartedAtRef, ClickDate),
   k |-> 1,
   responses |-> <<>>]

\* The variant persistSourceContext({ source, ...geo }): the device is left out.
Persisted_NoDevice(context) ==
  [f \in ContextFields |->
     IF f \in {"deviceType", "operatingSystem", "browser"} THEN NullText
     ELSE context[f]]

\* persistSourceContext, then getStoredSourceContext at the next render:
\* JSON.stringify and JSON.parse of a record of strings and nulls.
Persisted(context) == [f \in ContextFields |-> context[f]]

\* A click on the submit button: handleVote runs to a return or to its first
\* await.
HandleVote ==
  /\ ~fetchPending
  /\ SubmitEnabled
  /\ \/ /\ structure = NullStructure \/ ~Truthy(surveyId)
        /\ errorMessage' = MsgSelect
        /\ errorDetails' = NullText
        /\ errorStatus' = NullId
        /\ selectedOptions' = AnswersAfterFailure(selectedOptions)
        /\ last' = Event("VoteNoSurvey")
        /\ UNCHANGED <<submitting, voteResults, missingQuestionIds,
                       showThankYou, vote, votesInFlight, sent>>
     \/ /\ ~(structure = NullStructure \/ ~Truthy(surveyId))
        /\ Unanswered(structure, selectedOptions) # <<>>
        /\ errorMessage' = MsgAnswerAll
        /\ errorDetails' = NullText
        /\ errorStatus' = NullId
        /\ missingQuestionIds' = Unanswered(structure, selectedOptions)
        /\ selectedOptions' = AnswersAfterFailure(selectedOptions)
        /\ last' = [Event("VoteInvalid") EXCEPT !.n = Len(structure.questions)]
        /\ UNCHANGED <<submitting, voteResults, showThankYou, vote,
                       votesInFlight, sent>>
     \/ /\ ~(structure = NullStructure \/ ~Truthy(surveyId))
        /\ Unanswered(structure, selectedOptions) = <<>>
        /\ submitting' = TRUE
        /\ errorMessage' = NullText
        /\ errorDetails' = NullText
        /\ voteResults' = <<>>
        /\ missingQuestionIds' = <<>>
        /\ showThankYou' = FALSE
        /\ vote' = StartedVote
        /\ votesInFlight' = votesInFlight \cup Range(Issued(StartedVote, 1))
        /\ sent' = Issued(StartedVote, 1)
        /\ last' = [Event("VoteStart") EXCEPT !.k = 1,
                                              !.n = Len(structure.questions)]
        /\ UNCHANGED <<errorStatus, selectedOptions>>
  /\ UNCHANGED <<surveyId, structure, structureLoading, voteStartedAtRef,
                 localStorage, page, loads, refusal, fetchPending>>

\* The request handleVote awaits resolves with a VoteResponse: the loop goes
\* on to the next question, or ends and the try block completes.
VoteOk ==
  /\ ~fetchPending
  /\ vote.running
  /\ LET p == Payload(vote, vote.k)
         rs == Push(vote.responses, ResponseTo(p))
         n == Len(vote.structure.questions)
     IN
     /\ p \in votesInFlight
     /\ \/ /\ vote.k < n
           /\ vote' = [vote EXCEPT !.k = vote.k + 1, !.responses = rs]
           /\ votesInFlight' =
                (votesInFlight \ {p}) \cup Range(Issued(vote, vote.k + 1))
           /\ sent' = sent \o Issued(vote, vote.k + 1)
           /\ last' = [Event("VoteNext") EXCEPT !.k = vote.k, !.n = n]
           /\ UNCHANGED <<submitting, voteResults, showThankYou, localStorage>>
        \/ /\ vote.k >= n
           /\ localStorage' = Persisted(vote.context)
           /\ voteResults' = rs
           /\ showThankYou' = TRUE
           /\ submitting' = FALSE
           /\ vote' = IdleVote
           /\ votesInFlight' = votesInFlight \ {p}
           /\ sent' = <<>>
           /\ last' = [Event("VoteDone") EXCEPT !.k = vote.k, !.n = n]
  /\ UNCHANGED <<surveyId, structure, selectedOptions, structureLoading,
                 errorMessage, errorDetails, errorStatus, missingQuestionIds,
                 voteStartedAtRef, page, loads, refusal, fetchPending>>

\* The request handleVote awaits fails: the catch block and finally run.
VoteFail(err) ==
  /\ ~fetchPending
  /\ vote.running
  /\ LET p == Payload(vote, vote.k)
         e == mapApiErrorMessage(err)
     IN
     /\ p \in votesInFlight
     /\ errorMessage' = OrText(e.message, MsgVoteFallback)
     /\ errorDetails' = OrText(e.details, NullText)
     /\ errorStatus' = e.status
     /\ voteResults' = ResultsOnFailure(voteResults, vote.responses)
     /\ selectedOptions' = AnswersAfterFailure(selectedOptions)
     /\ votesInFlight' = votesInFlight \ {p}
     /\ last' = [Event("VoteFail") EXCEPT !.k = vote.k,
                                          !.n = Len(vote.structure.questions)]
  /\ submitting' = FALSE
  /\ vote' = IdleVote
  /\ sent' = <<>>
  /\ UNCHANGED <<surveyId, structure, structureLoading, missingQuestionIds,
                 showThankYou, voteStartedAtRef, localStorage, page, loads,
                 refusal, fetchPending>>

\* ------------------------------------------------------------ specification

Next ==
  \/ \E id \in PathIds : Popstate(id)
  \/ FetchStructure
  \/ Reload
  \/ \E id \in SurveyIds : \E data \in StructuresOf(id) : LoadOk(data)
  \/ \E id \in SurveyIds : \E err \in Failures : LoadFail(id, err)
  \/ \E q \in QuestionIds, o \in OptionIds : SelectOption(q, o)
  \/ HandleVote
  \/ VoteOk
  \/ \E err \in Failures : VoteFail(err)

Spec == Init /\ [][Next]_vars

\* The request handleVote awaits is answered, one way or the other.
VoteResolves == VoteOk \/ \E err \in Failures : VoteFail(err)

\* Every issued vote request eventually resolves, and a scheduled effect runs:
\* the fetchStructure effect is flushed after the render that scheduled it,
\* and a response is delivered however often navigation intervenes.
FairSpec ==
  Init /\ [][Next]_vars /\ WF_vars(FetchStructure) /\ SF_vars(VoteResolves)

\* ------------------------------------------- one visit, any failure response

\* The server starts answering the requests it refuses with r.
Refuse(r) ==
  /\ loads # EmptyBag \/ vote.running
  /\ r # refusal
  /\ refusal' = r
  /\ UNCHANGED <<surveyId, structure, selectedOptions, structureLoading,
                 submitting, errorMessage, errorDetails, errorStatus,
                 voteResults, missingQuestionIds, showThankYou,
                 voteStartedAtRef, localStorage, page, loads, vote,
                 votesInFlight, sent, last, fetchPending>>

\* The read in flight is refused: apiFetch throws into fetchStructure.
LoadRefused ==
  /\ refusal # NoRefusal
  /\ LoadFail(surveyId, ErrorOf(refusal))

\* The vote request in flight is refused: apiFetch throws into handleVote.
VoteRefused ==
  /\ refusal # NoRefusal
  /\ VoteFail(ErrorOf(refusal))

\* A visit to one path, without navigation, in which a refused request may get
\* any of the failure responses.
VisitNext ==
  \/ \E id \in SurveyIds : \E data \in StructuresOf(id) : LoadOk(data)
  \/ \E q \in QuestionIds, o \in OptionIds : SelectOption(q, o)
  \/ HandleVote
  \/ VoteOk
  \/ \E r \in Refusals : Refuse(r)
  \/ LoadRefused
  \/ VoteRefused

VisitSpec == Init /\ [][VisitNext]_vars

\* ------------------------------------- visits of any page, any stored record

\* A survey page is opened with any of the query strings, with any of the
\* records stored.
ContextInit ==
  /\ \E id \in SurveyIds : Opened(id)
  /\ localStorage \in StoredContexts
  /\ page \in FreshContexts

\* Visits without navigation and without failures: vote, reload, vote again.
ContextNext ==
  \/ \E id \in SurveyIds : \E data \in StructuresOf(id) : LoadOk(data)
  \/ \E q \in QuestionIds, o \in OptionIds : SelectOption(q, o)
  \/ HandleVote
  \/ VoteOk
  \/ Reload

ContextSpec == ContextInit /\ [][ContextNext]_vars

\* ------------------------------------------------------------------ claims

\* C1: when vote request k of an attempt fails, exactly the requests 1..k
\* were issued (none of k+1..N), nothing is left in flight and no suspended
\* call is left to issue more; the result list is empty, the thank-you flag is
\* not set and an error message is set.
C1_FailureDiscardsResults ==
  [][ last'.ev = "VoteFail" =>
        /\ Len(sent) = last'.k
        /\ \A i \in 1..Len(sent) :
             sent[i].questionId = vote.structure.questions[i]
        /\ votesInFlight' = {}
        /\ ~vote'.running
        /\ voteResults' = <<>>
        /\ ~showThankYou'
        /\ errorMessage' # NullText ]_vars

\* The second request of an attempt has failed after the first succeeded.
C1_Witness ==
  /\ last.ev = "VoteFail"
  /\ last.k = 2
  /\ voteResults = <<>>
  /\ errorMessage # NullText

\* C2: when an attempt over N questions completes, exactly N requests were
\* issued, the i-th for the i-th question of the survey's list; the result
\* list has length N, its i-th entry is the response to the i-th request, and
\* the thank-you flag is set.
C2_SuccessInQuestionOrder ==
  [][ last'.ev = "VoteDone" =>
        LET qs == vote.structure.questions IN
        /\ Len(sent) = Len(qs)
        /\ \A i \in 1..Len(qs) : sent[i].questionId = qs[i]
        /\ Len(voteResults') = Len(qs)
        /\ \A i \in 1..Len(qs) : voteResults'[i] = ResponseTo(sent[i])
        /\ showThankYou' ]_vars

\* An attempt over two questions has completed.
C2_Witness ==
  /\ last.ev = "VoteDone"
  /\ last.n = 2
  /\ Len(voteResults) = 2
  /\ showThankYou

\* The questions of the stored structure without a selection, in survey order.
NoSelection ==
  SelectSeq(structure.questions, LAMBDA q : q \notin DOMAIN selectedOptions)

\* C3: a click on submit while a question of the stored structure has no
\* selection issues no vote request, sets the 'answer all questions' message
\* and sets the missing-question list to the unanswered ids in survey order.
C3_UnansweredNeverSubmitted ==
  [][ (/\ last'.ev \in {"VoteNoSurvey", "VoteInvalid", "VoteStart"}
       /\ NoSelection # <<>>) =>
        /\ votesInFlight' = votesInFlight
        /\ sent' = sent
        /\ errorMessage' = MsgAnswerAll
        /\ missingQuestionIds' = NoSelection ]_vars

\* C4: the response to a read issued for an identifier that is no longer the
\* current one is not applied: it changes neither the stored structure nor the
\* error state.
C4_StaleLoadIgnored ==
  [][ (last'.ev \in {"LoadOk", "LoadFail"} /\ last'.id # surveyId) =>
        UNCHANGED <<structure, errorMessage, errorDetails, errorStatus>> ]_vars

\* C5: a read whose response has `ativo` other than true leaves the structure
\* null and sets the 'not active' message with no status and no details; of
\* the other state it changes only the loading flag.
C5_InactiveNeverStored ==
  [][ (last'.ev = "LoadOk" /\ last'.ativo # "true") =>
        /\ structure' = NullStructure
        /\ errorMessage' = MsgNotActive
        /\ errorStatus' = NullId
        /\ errorDetails' = NullText
        /\ UNCHANGED <<surveyId, selectedOptions, submitting, voteResults,
                       missingQuestionIds, showThankYou>> ]_vars

\* A response whose `ativo` is the number 1 has been received and not stored.
C5_Witness ==
  /\ last.ev = "LoadOk"
  /\ last.ativo = "1"
  /\ structure = NullStructure
  /\ errorMessage = MsgNotActive

\* C6: at most one vote request is in flight; while an attempt runs, the
\* requests issued are one more than the responses received, the one in
\* flight is the last issued, and every earlier one has been answered; when
\* no attempt runs, none is in flight.
C6_VotesSequential ==
  /\ Cardinality(votesInFlight) <= 1
  /\ vote.running =>
       /\ Len(sent) = Len(vote.responses) + 1
       /\ votesInFlight = {sent[Len(sent)]}
       /\ \A i \in 1..Len(vote.responses) :
            vote.responses[i] = ResponseTo(sent[i])
  /\ ~vote.running => votesInFlight = {}

\* The second request of an attempt is in flight after the first was answered.
C6_Witness ==
  /\ vote.running
  /\ Len(sent) = 2
  /\ Len(vote.responses) = 1
  /\ Cardinality(votesInFlight) = 1

\* C7: while a read for the current identifier or a submission attempt is
\* outstanding, the submit button is disabled.
C7_SubmitDisabledWhileBusy ==
  (BagIn(surveyId, loads) \/ vote.running) => ~SubmitEnabled

\* C8: the result list is never non-empty while an error message is set.
C8_ResultsExcludeError ==
  ~(Len(voteResults) > 0 /\ errorMessage # NullText)

\* C9: NotFound is shown whenever the error status is 404, ThankYou whenever
\* the thank-you flag is set, and the form never shows the success panel and
\* the error panel together.
C9_OneView ==
  /\ View \in {"NotFound", "ThankYou", "Form"}
  /\ errorStatus = 404 => View = "NotFound"
  /\ showThankYou => View = "ThankYou"
  /\ ~(SuccessPanel /\ ErrorPanel)

\* C10: in the state a failed read (a request error or an inactive survey)
\* leaves, its error is set and the stored structure is null.
C10_LoadErrorClearsStructure ==
  (last.ev = "LoadFail" \/ (last.ev = "LoadOk" /\ last.ativo # "true")) =>
    structure = NullStructure

\* C11: a failed submission attempt (the validation return or a failed vote
\* request) changes neither the selection nor the stored structure; an attempt
\* captures the selection and the structure it was triggered with, and while
\* it runs only a selection or a navigation changes the selection, so that
\* without them the selection after the failure is the one captured.
C11_FailureKeepsAnswers ==
  [][ /\ last'.ev \in {"VoteNoSurvey", "VoteInvalid", "VoteFail"} =>
           UNCHANGED <<selectedOptions, structure>>
      /\ last'.ev = "VoteStart" =>
           /\ vote'.selectedOptions = selectedOptions'
           /\ vote'.structure = structure'
           /\ UNCHANGED <<selectedOptions, structure>>
      /\ (vote.running
            /\ last'.ev \notin {"Select", "Popstate", "FetchStructure", "Mount"}) =>
           selectedOptions' = selectedOptions ]_vars

\* A vote request failed and the form still holds an answer to every question
\* of the stored structure.
C11_Witness ==
  /\ last.ev = "VoteFail"
  /\ structure # NullStructure
  /\ Len(structure.questions) = MaxQuestions
  /\ Unanswered(structure, selectedOptions) = <<>>

\* The step started a structure read: the fetchStructure effect ran, or the
\* page was mounted, for a present identifier.
LoadStarted ==
  /\ last'.ev \in {"FetchStructure", "Mount"}
  /\ Truthy(surveyId')

\* C12: immediately after an option is selected, and immediately after a new
\* load attempt starts, the error status, message and details are all null.
C12_CorrectiveActionClearsError ==
  [][ (last'.ev = "Select" \/ LoadStarted) =>
        /\ errorStatus' = NullId
        /\ errorMessage' = NullText
        /\ errorDetails' = NullText ]_vars

\* The user-facing message the claim assigns to a failure with the given
\* status and message, with the given fallback for a missing message.
UserMessage(status, message, fallback) ==
  IF status = 429 THEN MsgTooMany
  ELSE IF status = 409 \/ IncludesJaRecebemos(message) THEN MsgAlreadyVoted
  ELSE IF IncludesExpirada(message) THEN MsgExpired
  ELSE IF message \notin {NullText, ""} THEN message
  ELSE fallback

C13_ServerTextExcept404 ==
  [][ (last'.ev = "VoteFail" /\ refusal.kind = "http" /\ refusal.status # 404) =>
        errorMessage' =
          UserMessage(refusal.status, refusal.body.message, MsgGeneric) ]_vars

C14_Vote404NotFound ==
  [][ (last'.ev = "VoteFail" /\ errorStatus' = 404) =>
        /\ errorMessage' = MsgNotFound
        /\ View' = "NotFound" ]_vars

\* C15: the persisted source-context record is rewritten only by the step
\* that completes a fully successful submission, and then with the context
\* sent in every vote of that attempt; every other step (a validation
\* failure, a failed vote request, a load, a selection, a navigation) leaves
\* it unchanged.
C15_PersistOnlyOnSuccess ==
  [][ /\ last'.ev = "VoteDone" =>
           /\ Len(sent) > 0
           /\ \A i \in 1..Len(sent) : sent[i].context = localStorage'
      /\ last'.ev # "VoteDone" => localStorage' = localStorage ]_vars

\* A submission of every question succeeded and rewrote the record left by an
\* earlier visit with the merged context.
C15_Witness ==
  /\ last.ev = "VoteDone"
  /\ last.n = MaxQuestions
  /\ localStorage \notin StoredAtStart
  /\ localStorage = MergeContext(FreshContext, [NullContext EXCEPT !["country"] = "BR"])

\* The merge as the claim states it: the fresh value when it is not null,
\* otherwise the stored value, otherwise null.
MergeNonNull(fresh, stored) ==
  [f \in ContextFields |->
     IF fresh[f] # NullText THEN fresh[f]
     ELSE IF stored[f] # NullText THEN stored[f]
     ELSE NullText]

\* The merge with 'not null' read as 'neither null nor empty'.
MergeNonEmpty(fresh, stored) ==
  [f \in ContextFields |->
     IF fresh[f] \notin {NullText, ""} THEN fresh[f]
     ELSE IF stored[f] \notin {NullText, ""} THEN stored[f]
     ELSE NullText]

\* C16, as stated: for each field, the value sent with the votes of an
\* attempt is the freshly derived value when it is non-null, otherwise the
\* stored value, otherwise null.
C16_MergeFreshNonNull ==
  [][ last'.ev \in {"VoteStart", "VoteNext"} =>
        \A i \in 1..Len(sent') :
          sent'[i].context = MergeNonNull(page, localStorage) ]_vars

\* C16, amended: for each field, the value sent is the freshly derived value
\* when it is neither null nor empty, otherwise the stored value when that is
\* neither null nor empty, otherwise null.
C16_MergeFreshNonEmpty ==
  [][ last'.ev \in {"VoteStart", "VoteNext"} =>
        \A i \in 1..Len(sent') :
          sent'[i].context = MergeNonEmpty(page, localStorage) ]_vars

\* The example of the claim: with {country: BR} stored and a page that yields
\* no country and city SP, a vote was sent with country BR and city SP.
C16_Witness ==
  /\ last.ev = "VoteStart"
  /\ page["country"] = NullText /\ page["city"] = "SP"
  /\ localStorage = [NullContext EXCEPT !["country"] = "BR"]
  /\ sent[1].context["country"] = "BR" /\ sent[1].context["city"] = "SP"

\* C17: every vote payload an attempt issues has as startedAt the load
\* timestamp recorded when the structure being voted on was loaded.
C17_StartedAtIsLoadTime ==
  \A i \in 1..Len(sent) : sent[i].startedAt = LoadDate

\* The state the claim describes for a path without survey identifier.
NoIdentifierState ==
  (~Truthy(surveyId) /\ ~fetchPending) =>
    /\ structure = NullStructure
    /\ errorMessage = MsgNoUrl
    /\ errorStatus = NullId
    /\ ~Skeleton
    /\ ~FormShown

\* C18: when the path yields no survey identifier, no read request is issued,
\* the structure is null and the error state is the 'no survey specified'
\* message with no status; no loading indicator and no form is shown then.
C18_NoIdentifierIsTerminal ==
  /\ []NoIdentifierState
  /\ [][ (last'.ev \in {"Popstate", "FetchStructure", "Mount"}
            /\ ~Truthy(surveyId')) =>
            BagCardinality(loads') <= BagCardinality(loads) ]_vars

\* The form still holds what the running attempt was triggered with.
FormAsTriggered ==
  /\ vote.running
  /\ surveyId = vote.structure.id
  /\ structure = vote.structure
  /\ selectedOptions = vote.selectedOptions

\* After the step, the form with the answers of the attempt and an enabled
\* submit button is shown, and a click would start a new attempt.
RetryAvailable ==
  /\ SubmitEnabled'
  /\ structure' = vote.structure
  /\ selectedOptions' = vote.selectedOptions
  /\ Truthy(surveyId')
  /\ Unanswered(structure', selectedOptions') = <<>>

\* C19, as stated: after a failed submission attempt finishes, whatever the
\* failure status, the form with the preserved answers and an enabled submit
\* action is available again.
C19_RetryAfterAnyFailure ==
  [][ (last'.ev = "VoteFail" /\ FormAsTriggered) => RetryAvailable ]_vars

\* C19, amended: the same after a failure whose status is not 404.
C19_RetryAfterFailure ==
  [][ (last'.ev = "VoteFail" /\ FormAsTriggered /\ errorStatus' # 404) =>
        RetryAvailable ]_vars

\* A vote request failed with status 500 and the form, with an answer to
\* every question, can be submitted again.
C19_Witness ==
  /\ last.ev = "VoteFail"
  /\ errorStatus = 500
  /\ SubmitEnabled
  /\ Truthy(surveyId)
  /\ Len(structure.questions) = MaxQuestions
  /\ Unanswered(structure, selectedOptions) = <<>>

\* C20: while a structure read for the current identifier is in flight the
\* loading flag is true (and the skeleton is shown while no structure is
\* stored and the form screen is rendered); once no read is in flight the flag
\* is false.
C20_LoadingTracksLoad ==
  /\ BagIn(surveyId, loads) =>
       /\ structureLoading
       /\ (structure = NullStructure /\ View = "Form") => Skeleton
  /\ loads = EmptyBag => ~structureLoading

\* The step created or changed an entry of the selection.
SelectionEntrySet ==
  \E q \in DOMAIN selectedOptions' :
    q \notin DOMAIN selectedOptions \/ selectedOptions'[q] # selectedOptions[q]

DetailsFor(body) ==
  IF body.details.tag = "string" THEN body.details.str
  ELSE IF body.details.tag = "list" THEN Join(body.details.list, " | ")
  ELSE NullText

\* A request was answered with the non-success response held in refusal and
\* its caller's catch block has stored the error: fetchStructure stores the
\* three fields of the error it caught, handleVote its status and details.
RefusedRead == last'.ev = "LoadFail" /\ refusal.kind = "http"
RefusedVote == last'.ev = "VoteFail" /\ refusal.kind = "http"

\* C22, as stated: the error raised for a non-success response has the HTTP
\* status, the details of the body (string unchanged, list joined with
\* ' | ', else null) and the body's message when it has a string message,
\* else the not-found message for 404 and the generic fallback otherwise.
C22_NormalizedBodyMessageFirst ==
  [][ /\ (RefusedRead \/ RefusedVote) =>
           /\ errorStatus' = refusal.status
           /\ errorDetails' = DetailsFor(refusal.body)
      /\ RefusedRead =>
           errorMessage' =
             IF refusal.body.message # NullText THEN refusal.body.message
             ELSE IF refusal.status = 404 THEN MsgNotFound
             ELSE MsgGeneric ]_vars

\* C22, amended: status and details as stated; the message is the not-found
\* message for status 404 whatever the body holds, and for every other
\* status the body's message when it is a non-empty string, else the generic
\* fallback.
C22_NormalizedStatusFirst ==
  [][ /\ (RefusedRead \/ RefusedVote) =>
           /\ errorStatus' = refusal.status
           /\ errorDetails' = DetailsFor(refusal.body)
      /\ RefusedRead =>
           errorMessage' =
             IF refusal.status = 404 THEN MsgNotFound
             ELSE IF refusal.body.message \notin {NullText, ""}
               THEN refusal.body.message
             ELSE MsgGeneric ]_vars

\* A read was answered 404 with a message of the server's own and a list of
\* details: the not-found message and the joined details are stored.
C22_Witness ==
  /\ last.ev = "LoadFail"
  /\ refusal.kind = "http"
  /\ refusal.status = 404
  /\ refusal.body.message = SrvOther
  /\ refusal.body.details.tag = "list"
  /\ errorMessage = MsgNotFound
  /\ errorDetails = "a | b"
  /\ errorStatus = 404

\* The step ends an attempt that was triggered on the structure of a survey
\* other than the one the identifier now names.
CompletesAfterNavigation ==
  /\ last'.ev \in {"VoteDone", "VoteFail"}
  /\ vote.structure.id # surveyId

\* C23: the completion (success or failure) of an attempt that was in flight
\* when the survey identifier changed leaves the thank-you flag, the result
\* list and the error state as the navigation left them.
C23_LateCompletionIgnored ==
  [][ CompletesAfterNavigation =>
        /\ showThankYou' = showThankYou
        /\ voteResults' = voteResults
        /\ errorMessage' = errorMessage
        /\ errorDetails' = errorDetails
        /\ errorStatus' = errorStatus ]_vars

\* C24: the attempt keeps the structure and the selection of the click that
\* triggered it, whatever the user selects meanwhile, and every vote request
\* it issues carries the survey id of that structure and the option that
\* selection holds for the request's question.
C24_RequestsCarryAnswersOfClick ==
  [][ /\ last'.ev = "VoteStart" =>
           /\ vote'.structure = structure
           /\ vote'.selectedOptions = selectedOptions
      /\ (vote.running /\ vote'.running) =>
           /\ vote'.structure = vote.structure
           /\ vote'.selectedOptions = vote.selectedOptions
      /\ \A i \in 1..Len(sent') :
           /\ sent'[i].surveyId = vote'.structure.id
           /\ sent'[i].questionId = vote'.structure.questions[i]
           /\ sent'[i].optionId = vote'.selectedOptions[sent'[i].questionId] ]_vars

\* The second request of an attempt has just been issued, after the user
\* changed the answer to its question: it carries the answer of the click.
C24_Witness ==
  /\ last.ev = "VoteNext"
  /\ Len(sent) = 2
  /\ sent[2].questionId \in DOMAIN selectedOptions
  /\ selectedOptions[sent[2].questionId] # sent[2].optionId
  /\ sent[2].optionId = vote.selectedOptions[sent[2].questionId]

\* Every id in the missing-question list names a question of the stored
\* structure that has no selection.
MissingAreUnanswered ==
  \A i \in 1..Len(missingQuestionIds) :
    /\ missingQuestionIds[i] \in Range(structure.questions)
    /\ ~Selected(selectedOptions, missingQuestionIds[i])

\* C25: in every reachable state the missing-question list holds only ids of
\* questions of the stored structure without a selection, and a selection
\* for question q removes q, and only q, from the list.
C25_MissingListTracksUnanswered ==
  /\ []MissingAreUnanswered
  /\ [][ last'.ev = "Select" =>
           \E q \in DOMAIN selectedOptions' :
             /\ q \notin DOMAIN selectedOptions
                  \/ selectedOptions'[q] # selectedOptions[q]
             /\ missingQuestionIds' =
                  SelectSeq(missingQuestionIds, LAMBDA id : id # q)
             /\ \A i \in 1..Len(missingQuestionIds') :
                  missingQuestionIds'[i] # q ]_vars

\* The step ends a submission attempt: its last request resolved, or one of
\* its requests failed.
AttemptEnds == last'.ev \in {"VoteDone", "VoteFail"}

\* The thank-you state with results; an error is stored.
ThankYouWithResults == showThankYou /\ voteResults # <<>>
ErrorStored == errorMessage # NullText

\* C26: with every issued request resolving, an attempt in progress
\* eventually is over with the submitting flag false; the step that ends it
\* leaves the flag false and exactly one of the thank-you state with results
\* and an error; the flag is true only while an attempt is in progress.
C26_AttemptEndsOneWay ==
  /\ [](submitting => vote.running)
  /\ vote.running ~> (~vote.running /\ ~submitting)
  /\ [][ AttemptEnds =>
           /\ ~submitting'
           /\ ThankYouWithResults' # ErrorStored' ]_vars

====
